---- MODULE Spec2Model ----
(***************************************************************************)
(* Human-in-the-loop social media workflow (workflow.py, main.py,          *)
(* approve_post.py, post_generator.py, twitter_client.py).                 *)
(*                                                                         *)
(* The graph built by SocialMediaWorkflow._build_graph is executed one     *)
(* node per step, and the checkpointer holds one snapshot per thread_id    *)
(* that is rewritten after every completed node.  Four coordinator entry   *)
(* points drive the graph: main.py (start), approve_post.py (respond),     *)
(* SocialMediaWorkflow.run and SocialMediaWorkflow.resume.                 *)
(*                                                                         *)
(* How the graph library behaves where the code relies on it:              *)
(*  - compile() is given no interrupt_before and no node calls             *)
(*    interrupt(), so the graph never pauses by itself: a stream that is   *)
(*    drained runs until END or until a node raises;                       *)
(*  - stream() yields one event per completed node, and get_state() then   *)
(*    shows that node's checkpoint and, in next, the node to run;          *)
(*  - invoke()/stream() with an input writes the input over the thread's   *)
(*    values and starts at the entry point; with None it continues from    *)
(*    the thread's checkpoint;                                             *)
(*  - update_state() without as_node writes as the node that ran last;     *)
(*  - a node that raises leaves the checkpoint of the node before it.      *)
(*                                                                         *)
(* Coordinator invocations are taken one at a time: each is a process      *)
(* that reads current_thread_id.txt once, at its beginning, or writes it   *)
(* once, at its end, and otherwise touches only its own thread's record.   *)
(*                                                                         *)
(* Text is a sequence of one-character strings, so that lower() and        *)
(* strip() are computed and not assumed.                                   *)
(***************************************************************************)
EXTENDS Integers, Sequences, FiniteSets, TLC

VARIABLES store, thread_file, cur, twitter

vars == <<store, thread_file, cur, twitter>>

-----------------------------------------------------------------------------
(* Bounds of the model *)

\* largest iteration_count a thread may have when an invocation that is
\* about to generate is admitted
MaxCount == 6

\* how far below and above the platform's limit the lengths of the texts
\* handed to the Publisher range
LengthMargin == 12

-----------------------------------------------------------------------------
(* Text *)

Whitespace == {" ", "\t", "\n"}

UpperCase ==
    << "A","B","C","D","E","F","G","H","I","J","K","L","M",
       "N","O","P","Q","R","S","T","U","V","W","X","Y","Z" >>

LowerCase ==
    << "a","b","c","d","e","f","g","h","i","j","k","l","m",
       "n","o","p","q","r","s","t","u","v","w","x","y","z" >>

LowerOf(c) ==
    IF \E i \in DOMAIN UpperCase : UpperCase[i] = c
    THEN LowerCase[CHOOSE i \in DOMAIN UpperCase : UpperCase[i] = c]
    ELSE c

\* str.lower()
lower(s) == [i \in 1..Len(s) |-> LowerOf(s[i])]

RECURSIVE lstrip(_)
lstrip(s) ==
    IF s # <<>> /\ Head(s) \in Whitespace THEN lstrip(Tail(s)) ELSE s

RECURSIVE rstrip(_)
rstrip(s) ==
    IF s # <<>> /\ s[Len(s)] \in Whitespace
    THEN rstrip(SubSeq(s, 1, Len(s) - 1))
    ELSE s

\* str.strip()
strip(s) == rstrip(lstrip(s))

ApprovalTokens ==
    { <<"a","p","p","r","o","v","e">>, <<"y","e","s">>, <<"o","k">>,
      <<"p","u","b","l","i","s","h">>, <<"y">> }

QuitTokens == { <<"q","u","i","t">>, <<"e","x","i","t">>, <<"q">> }

\* what a reviewer may type at the prompt of approve_post.py
TypedFeedback ==
    { <<>>, <<" ">>, <<" ","Y","E","S"," ">>, <<"n","o">>, <<"Q">> }

\* what a caller may pass to SocialMediaWorkflow.resume
ResumeFeedback ==
    { <<>>, <<"Y","E","S">>, <<"n","o">> }

\* what a caller may have passed to resume when the classification of a
\* feedback text is examined on its own
ClassifyFeedback ==
    { <<>>, <<" ">>, <<"y">>, <<"Y">>, <<"o","k">>, <<"O","k","\n">>,
      <<" "," ","A","p","p","r","o","v","e"," ">>, <<"Y","E","S">>,
      <<"\t","p","u","b","l","i","s","h">>, <<"y","e","s","s">>,
      <<"o"," ","k">>, <<"a","p","p","r","o","v","e"," ","i","t">>,
      <<"n","o">>, <<"q","u","i","t">>, <<"y","e">> }

Articles == {"a1", "a2"}

\* raw replies of the language model (response.content)
Replies == { <<" ">>, <<" ","q"," ">> }

GenerationError == <<"!">>

GenOutcomes == Replies \cup {GenerationError}

PublishOutcomes == {"success", "failure", "raised"}

ThreadIds == {"default", "workflow_1"}

\* thread ids main.py can generate (workflow_<timestamp>_<uuid>)
GeneratedIds == {"workflow_1"}

\* thread ids callers pass to SocialMediaWorkflow.run and .resume
CallerIds == {"workflow_1"}

-----------------------------------------------------------------------------
(* WorkflowState and the checkpoint of a thread *)

START == "__start__"
END == "__end__"

Nodes == {"generate_post", "wait_for_approval", "process_feedback", "publish_post"}

\* workflow.py: initial_state of run(); main.py: initial_state of main()
initial_state(article) ==
    [ article         |-> article,
      generated_post  |-> <<>>,
      human_feedback  |-> <<>>,
      is_approved     |-> FALSE,
      is_published    |-> FALSE,
      iteration_count |-> 0 ]

\* a thread_id the checkpointer holds nothing for: get_state(config).values
\* is empty
NoCheckpoint ==
    [ present |-> FALSE, values |-> initial_state(""), next |-> END,
      as_node |-> START ]

-----------------------------------------------------------------------------
(* Nodes of the graph, as functions of the state they receive *)

max_iterations == 5

\* a generate_post_node that revises whenever there is feedback or an
\* earlier attempt
generation_form_either(state) ==
    IF state.human_feedback # <<>> \/ state.iteration_count > 0
    THEN "revision"
    ELSE "initial"

\* which PostGenerator method _generate_post_node calls
generation_form(state) ==
    IF state.human_feedback # <<>> /\ state.iteration_count > 0
    THEN "revision"
    ELSE "initial"

\* the call _generate_post_node makes: regenerate_post(article, feedback)
\* or generate_post(article)
producer_call(state) ==
    [ form     |-> generation_form(state),
      article  |-> state.article,
      feedback |-> IF generation_form(state) = "revision"
                   THEN state.human_feedback
                   ELSE <<>> ]

NoProducerCall == [form |-> "none", article |-> "", feedback |-> <<>>]

\* PostGenerator.generate_post / regenerate_post: response.content.strip()
post_content(reply) == strip(reply)

\* generate_post_node that stores the post and forgets the counter
generate_post_node_keeps_count(state, reply) ==
    [state EXCEPT !.generated_post = post_content(reply)]

generate_post_node(state, reply) ==
    [state EXCEPT !.generated_post = post_content(reply),
                  !.iteration_count = @ + 1]

wait_for_approval_node(state) == state

\* process_feedback_node that approves whatever the feedback is
process_feedback_node_approves(state) == [state EXCEPT !.is_approved = TRUE]

\* process_feedback_node that lower-cases the feedback and does not strip it
process_feedback_node_unstripped(state) ==
    LET feedback == lower(state.human_feedback)
    IN  IF feedback \in ApprovalTokens
        THEN [state EXCEPT !.is_approved = TRUE]
        ELSE [state EXCEPT !.is_approved = FALSE]

process_feedback_node(state) ==
    LET feedback == strip(lower(state.human_feedback))
    IN  IF feedback \in ApprovalTokens
        THEN [state EXCEPT !.is_approved = TRUE]
        ELSE [state EXCEPT !.is_approved = FALSE]

\* outcome "success": result["success"] is true; "failure": publish_post
\* returned success False; "raised": TwitterClient() or publish_post raised
publish_post_node(state, outcome) ==
    IF outcome = "success"
    THEN [state EXCEPT !.is_published = TRUE]
    ELSE [state EXCEPT !.is_published = FALSE]

\* should_publish without the cap
should_publish_no_cap(state) ==
    IF state.is_approved THEN "publish" ELSE "regenerate"

\* should_publish that looks at the cap before it looks at the approval
should_publish_cap_first(state) ==
    IF state.iteration_count >= max_iterations THEN "end"
    ELSE IF state.is_approved THEN "publish"
    ELSE "regenerate"

\* should_publish that ends only above max_iterations
should_publish_off_by_one(state) ==
    IF state.is_approved THEN "publish"
    ELSE IF state.iteration_count > max_iterations THEN "end"
    ELSE "regenerate"

should_publish(state) ==
    IF state.is_approved THEN "publish"
    ELSE IF state.iteration_count >= max_iterations THEN "end"
    ELSE "regenerate"

\* edges on which a publish_post that did not publish runs again
next_node_retries(node, state) ==
    CASE node = START               -> "generate_post"
      [] node = "generate_post"     -> "wait_for_approval"
      [] node = "wait_for_approval" -> "process_feedback"
      [] node = "process_feedback"  ->
            ( CASE state.is_approved -> "publish_post"
                [] ~state.is_approved
                   /\ state.iteration_count < max_iterations
                                     -> "generate_post"
                [] OTHER             -> END )
      [] node = "publish_post" /\ ~state.is_published -> "publish_post"
      [] OTHER                      -> END

\* the edges of _build_graph: the node that runs after `node` has written
\* `state`
next_node(node, state) ==
    CASE node = START               -> "generate_post"
      [] node = "generate_post"     -> "wait_for_approval"
      [] node = "wait_for_approval" -> "process_feedback"
      [] node = "process_feedback"  ->
            ( CASE should_publish(state) = "publish"    -> "publish_post"
                [] should_publish(state) = "regenerate" -> "generate_post"
                [] OTHER                                -> END )
      [] OTHER                      -> END

\* the checkpoint written when `node` has completed with `state`
checkpoint_after(node, state) ==
    [ present |-> TRUE, values |-> state, next |-> next_node(node, state),
      as_node |-> node ]

\* graph.invoke(input) / graph.stream(input) with an input: the input is
\* written over the thread's values and the graph starts at its entry point
invoke_input(state) == checkpoint_after(START, state)

\* graph.update_state(config, values) without as_node: the values are
\* written as if by the node that ran last, and that node's edges are
\* evaluated again
update_state(ckpt, state) == checkpoint_after(ckpt.as_node, state)

-----------------------------------------------------------------------------
(* The coordinator invocation in progress, and the last one that ended *)

Invocation(op, thread, status, before, calls, outcome) ==
    [ op |-> op, thread |-> thread, status |-> status, before |-> before,
      calls |-> calls, outcome |-> outcome, producer |-> NoProducerCall ]

Idle == cur.status # "running"

\* the loop over graph.stream ends: the graph reached END, or main.py
\* found wait_for_approval in get_state(config).next and broke out
stream_ends(op, ckpt) ==
    \/ ckpt.next = END
    \/ op = "start" /\ ckpt.next = "wait_for_approval"

\* approve_post.py: the report printed from the final state
final_report(state) ==
    IF state.is_published THEN "completed"
    ELSE IF state.is_approved THEN "approved_not_published"
    ELSE "regenerated"

\* what the entry point tells its caller when its loop has ended
report(op, state) ==
    CASE op = "start"   -> "paused"
      [] op = "respond" -> final_report(state)
      [] OTHER          -> "result"

\* the invocation after a node wrote `ckpt`, with `call` logged
after_node(ckpt, call) ==
    IF stream_ends(cur.op, ckpt)
    THEN [cur EXCEPT !.calls = Append(@, call), !.status = "returned",
                     !.outcome = report(cur.op, ckpt.values)]
    ELSE [cur EXCEPT !.calls = Append(@, call)]

\* main.py writes current_thread_id.txt once its loop has ended
file_after(ckpt) ==
    IF cur.op = "start" /\ stream_ends(cur.op, ckpt)
    THEN cur.thread
    ELSE thread_file

Running(t, node) ==
    /\ cur.status = "running"
    /\ cur.thread = t
    /\ store[t].next = node

-----------------------------------------------------------------------------
(* Node steps *)

generate_post(t) ==
    /\ Running(t, "generate_post")
    /\ \E reply \in GenOutcomes :
         LET state == store[t].values
             call  == "generate_post"
             ckpt  == checkpoint_after("generate_post",
                                       generate_post_node(state, reply))
         IN  IF reply = GenerationError
             THEN /\ cur' = [cur EXCEPT !.calls = Append(@, call),
                                        !.status = "raised",
                                        !.outcome = "error",
                                        !.producer = producer_call(state)]
                  /\ UNCHANGED <<store, thread_file>>
             ELSE /\ store' = [store EXCEPT ![t] = ckpt]
                  /\ cur' = [after_node(ckpt, call) EXCEPT
                               !.producer = producer_call(state)]
                  /\ thread_file' = file_after(ckpt)
    /\ UNCHANGED twitter

wait_for_approval(t) ==
    /\ Running(t, "wait_for_approval")
    /\ LET ckpt == checkpoint_after("wait_for_approval",
                                    wait_for_approval_node(store[t].values))
       IN  /\ store' = [store EXCEPT ![t] = ckpt]
           /\ cur' = after_node(ckpt, "wait_for_approval")
           /\ thread_file' = file_after(ckpt)
    /\ UNCHANGED twitter

process_feedback(t) ==
    /\ Running(t, "process_feedback")
    /\ LET ckpt == checkpoint_after("process_feedback",
                                    process_feedback_node(store[t].values))
       IN  /\ store' = [store EXCEPT ![t] = ckpt]
           /\ cur' = after_node(ckpt, "process_feedback")
           /\ thread_file' = file_after(ckpt)
    /\ UNCHANGED twitter

publish_post(t) ==
    /\ Running(t, "publish_post")
    /\ \E outcome \in PublishOutcomes :
         LET state == store[t].values
             ckpt  == checkpoint_after("publish_post",
                                       publish_post_node(state, outcome))
         IN  /\ store' = [store EXCEPT ![t] = ckpt]
             /\ cur' = after_node(ckpt, "publish_post")
             /\ thread_file' = file_after(ckpt)
    /\ UNCHANGED twitter

-----------------------------------------------------------------------------
(* Entry points *)

\* an invocation whose first node is generate_post is admitted only below
\* the model's bound on iteration_count
Admitted(ckpt) ==
    ckpt.next = "generate_post" => ckpt.values.iteration_count < MaxCount

\* a coordinator that goes on with whatever get_state returned
found_unchecked(current) == TRUE

\* approve_post.py:127, workflow.py:309: the thread has a state to resume
found(current) == current.present

\* a prompt that knows the quit words in lower case only
is_quit_case_sensitive(feedback) == feedback \in QuitTokens

\* get_human_feedback: the reviewer typed quit, exit or q, in any case
is_quit(feedback) == lower(feedback) \in QuitTokens

\* main.py main(): a fresh thread_id, the initial state streamed through
\* the graph
Start(t, article) ==
    /\ Idle
    /\ t \in GeneratedIds
    /\ ~store[t].present
    /\ store' = [store EXCEPT ![t] = invoke_input(initial_state(article))]
    /\ cur' = Invocation("start", t, "running", store[t], <<>>, "none")
    /\ UNCHANGED <<thread_file, twitter>>

\* SocialMediaWorkflow.run(article, thread_id)
Run(t, article) ==
    /\ Idle
    /\ t \in CallerIds
    /\ store' = [store EXCEPT ![t] = invoke_input(initial_state(article))]
    /\ cur' = Invocation("run", t, "running", store[t], <<>>, "none")
    /\ UNCHANGED <<thread_file, twitter>>

\* SocialMediaWorkflow.resume(human_feedback, thread_id)
Resume(t, human_feedback) ==
    /\ Idle
    /\ t \in CallerIds
    /\ IF ~found(store[t])
       THEN /\ cur' = Invocation("resume", t, "raised", store[t], <<>>,
                                 "not_found")
            /\ UNCHANGED store
       ELSE LET updated_state ==
                    [store[t].values EXCEPT !.human_feedback = human_feedback]
                ckpt == invoke_input(updated_state)
            IN  /\ Admitted(ckpt)
                /\ store' = [store EXCEPT ![t] = ckpt]
                /\ cur' = Invocation("resume", t, "running", store[t], <<>>,
                                     "none")
    /\ UNCHANGED <<thread_file, twitter>>

\* approve_post.py get_current_thread_id(): the file, else argv[1], else
\* the prompt, else "default"
get_current_thread_id(file, argv, typed) ==
    IF file # "" THEN file
    ELSE IF Len(argv) > 0 THEN argv[1]
    ELSE IF typed # "" THEN typed
    ELSE "default"

\* approve_post.py main(), from the thread id it resolved
approve(thread_id, raw) ==
    /\ LET current   == store[thread_id]
           feedback  == strip(raw)
           updated_state ==
               [current.values EXCEPT !.human_feedback = feedback]
           ckpt == update_state(current, updated_state)
           exit(outcome) ==
               /\ cur' = Invocation("respond", thread_id, "exited", current,
                                    <<>>, outcome)
               /\ UNCHANGED store
       IN  IF ~found(current) THEN exit("not_found")
           ELSE IF is_quit(feedback) THEN exit("quit")
           ELSE IF feedback = <<>> THEN exit("no_feedback")
           ELSE /\ Admitted(ckpt)
                /\ store' = [store EXCEPT ![thread_id] = ckpt]
                /\ cur' = Invocation("respond", thread_id,
                                     IF ckpt.next = END THEN "returned"
                                     ELSE "running",
                                     current, <<>>,
                                     IF ckpt.next = END
                                     THEN final_report(ckpt.values)
                                     ELSE "none")
    /\ UNCHANGED <<thread_file, twitter>>

\* approve_post.py main()
Respond(argv, typed, raw) ==
    /\ Idle
    /\ approve(get_current_thread_id(thread_file, argv, typed), raw)

-----------------------------------------------------------------------------
(* TwitterClient.publish_post on its own.  The text is known by its      *)
(* length, which is all publish_post reads of it before handing it to    *)
(* api.update_status; `api` is what update_status does when it is called. *)

\* twitter_client.py:71
TwitterLimit == 280

PostLengths ==
    {0, 1} \cup ((TwitterLimit - LengthMargin)..(TwitterLimit + LengthMargin))

\* api.update_status: returns a tweet, or raises tweepy.TooManyRequests,
\* tweepy.Unauthorized or some other exception
ApiBehaviours == {"tweet", "TooManyRequests", "Unauthorized", "Forbidden"}

\* the dict publish_post returns; error is <<message, str(e)>>, submits
\* the number of calls of api.update_status
PublishResult(success, error, submits) ==
    [raised |-> FALSE, success |-> success, error |-> error,
     submits |-> submits]

NoResult == PublishResult(FALSE, <<"", "">>, 0)

\* the result of update_status, as publish_post's handlers turn it into a dict
submitted(api) ==
    CASE api = "tweet" ->
           PublishResult(TRUE, <<"", "">>, 1)
      [] api = "TooManyRequests" ->
           PublishResult(FALSE, <<"Rate limit exceeded", "">>, 1)
      [] api = "Unauthorized" ->
           PublishResult(FALSE, <<"Unauthorized", "">>, 1)
      [] OTHER ->
           PublishResult(FALSE, <<"Failed to publish post", api>>, 1)

\* publish_post without its length check: every text is submitted
TwitterClient_publish_post_unchecked(post_len, api) == submitted(api)

\* TwitterClient.publish_post: the ValueError of a too long text is raised
\* inside the try block and caught by the last handler
TwitterClient_publish_post(post_len, api) ==
    IF post_len > TwitterLimit
    THEN PublishResult(FALSE, <<"Failed to publish post", "Post is too long">>, 0)
    ELSE submitted(api)

NoCall == [post_len |-> 0, api |-> "tweet", returned |-> FALSE,
           result |-> NoResult]

\* one call of publish_post with the text and the platform at hand
PublishCall ==
    /\ ~twitter.returned
    /\ twitter' = [twitter EXCEPT
                     !.returned = TRUE,
                     !.result = TwitterClient_publish_post(twitter.post_len,
                                                           twitter.api)]
    /\ UNCHANGED <<store, thread_file, cur>>

-----------------------------------------------------------------------------
(* Specification *)

Init ==
    /\ store = [t \in ThreadIds |-> NoCheckpoint]
    /\ thread_file = ""
    /\ cur = Invocation("none", "default", "idle", NoCheckpoint, <<>>, "none")
    /\ twitter = NoCall

Next ==
    \/ \E t \in ThreadIds, article \in Articles : Start(t, article)
    \/ \E t \in ThreadIds, article \in Articles : Run(t, article)
    \/ \E t \in ThreadIds, fb \in ResumeFeedback : Resume(t, fb)
    \/ \E argv \in {<<>>} \cup {<<t>> : t \in ThreadIds},
          typed \in {""} \cup ThreadIds,
          raw \in TypedFeedback : Respond(argv, typed, raw)
    \/ \E t \in ThreadIds : generate_post(t)
    \/ \E t \in ThreadIds : wait_for_approval(t)
    \/ \E t \in ThreadIds : process_feedback(t)
    \/ \E t \in ThreadIds : publish_post(t)

Spec == Init /\ [][Next]_vars

-----------------------------------------------------------------------------
(* Classification examined on its own: resume() has just written a       *)
(* caller's feedback text over an existing record, and the graph runs.   *)

ClassifyThread == "workflow_1"

InitClassify ==
    /\ \E fb \in ClassifyFeedback, n \in 1..max_iterations,
          flags \in {<<FALSE, FALSE>>, <<TRUE, FALSE>>, <<TRUE, TRUE>>} :
         LET before == [ present |-> TRUE,
                         values  |-> [ article         |-> "a1",
                                       generated_post  |-> <<"q">>,
                                       human_feedback  |-> <<>>,
                                       is_approved     |-> flags[1],
                                       is_published    |-> flags[2],
                                       iteration_count |-> n ],
                         next    |-> END,
                         as_node |-> IF flags[1] THEN "publish_post"
                                     ELSE "process_feedback" ]
         IN  /\ store = [t \in ThreadIds |->
                           IF t = ClassifyThread
                           THEN invoke_input([before.values EXCEPT
                                                !.human_feedback = fb])
                           ELSE NoCheckpoint]
             /\ cur = Invocation("resume", ClassifyThread, "running", before,
                                 <<>>, "none")
    /\ thread_file = ""
    /\ twitter = NoCall

NextClassify ==
    \/ generate_post(ClassifyThread)
    \/ wait_for_approval(ClassifyThread)
    \/ process_feedback(ClassifyThread)
    \/ publish_post(ClassifyThread)

SpecClassify == InitClassify /\ [][NextClassify]_vars

-----------------------------------------------------------------------------
(* Two threads with a record each: "default" was created by run(article) *)
(* with its default thread_id and ran to the end of the graph; main.py   *)
(* then starts a thread of its own and approve_post.py is run with any   *)
(* argument, any typed thread id and any feedback.                       *)

\* the record run("a1") leaves on its thread when no call fails
AfterRun ==
    checkpoint_after("process_feedback",
                     [ article         |-> "a1",
                       generated_post  |-> <<"q">>,
                       human_feedback  |-> <<>>,
                       is_approved     |-> FALSE,
                       is_published    |-> FALSE,
                       iteration_count |-> max_iterations ])

InitThreads ==
    /\ store = [t \in ThreadIds |->
                  IF t = "default" THEN AfterRun ELSE NoCheckpoint]
    /\ thread_file = ""
    /\ cur = Invocation("run", "default", "returned", NoCheckpoint,
                        <<>>, "result")
    /\ twitter = NoCall

NextThreads ==
    \/ \E t \in ThreadIds, article \in Articles : Start(t, article)
    \/ \E argv \in {<<>>} \cup {<<t>> : t \in ThreadIds},
          typed \in {""} \cup ThreadIds,
          raw \in TypedFeedback : Respond(argv, typed, raw)
    \/ \E t \in ThreadIds : generate_post(t)
    \/ \E t \in ThreadIds : wait_for_approval(t)
    \/ \E t \in ThreadIds : process_feedback(t)
    \/ \E t \in ThreadIds : publish_post(t)

SpecThreads == InitThreads /\ [][NextThreads]_vars

-----------------------------------------------------------------------------
(* The review cycle of the two scripts: main.py starts a thread and      *)
(* approve_post.py is run on it any number of times.  A script that was  *)
(* started runs on: the node that is next is eventually executed.        *)

\* the graph library executes the node that is next
NodeSteps ==
    \E t \in ThreadIds :
        \/ generate_post(t)
        \/ wait_for_approval(t)
        \/ process_feedback(t)
        \/ publish_post(t)

\* approve_post.py is run and the reviewer types a decision: a text that
\* is neither empty nor a quit word
Decide ==
    \E argv \in {<<>>} \cup {<<t>> : t \in ThreadIds},
       typed \in {""} \cup ThreadIds,
       raw \in {r \in TypedFeedback : strip(r) # <<>> /\ ~is_quit(strip(r))} :
        Respond(argv, typed, raw)

NextReview ==
    \/ \E t \in ThreadIds, article \in Articles : Start(t, article)
    \/ \E argv \in {<<>>} \cup {<<t>> : t \in ThreadIds},
          typed \in {""} \cup ThreadIds,
          raw \in TypedFeedback : Respond(argv, typed, raw)
    \/ \E t \in ThreadIds : generate_post(t)
    \/ \E t \in ThreadIds : wait_for_approval(t)
    \/ \E t \in ThreadIds : process_feedback(t)
    \/ \E t \in ThreadIds : publish_post(t)

SpecReview == Init /\ [][NextReview]_vars /\ WF_vars(NodeSteps)

-----------------------------------------------------------------------------
(* The Publisher examined on its own: a text of some length is handed to *)
(* publish_post while the platform behaves in some way.                  *)

InitPublish ==
    /\ store = [t \in ThreadIds |-> NoCheckpoint]
    /\ thread_file = ""
    /\ cur = Invocation("none", "default", "idle", NoCheckpoint, <<>>, "none")
    /\ \E post_len \in PostLengths, api \in ApiBehaviours :
         twitter = [NoCall EXCEPT !.post_len = post_len, !.api = api]

NextPublish == PublishCall

SpecPublish == InitPublish /\ [][NextPublish]_vars

-----------------------------------------------------------------------------
(* Vocabulary of the properties *)

\* the record of the thread the current (or last) invocation addresses
Ckpt == store[cur.thread]
State == store[cur.thread].values

\* how often the current (or last) invocation executed `node`
Count(node) == Cardinality({i \in DOMAIN cur.calls : cur.calls[i] = node})

LastCall == IF cur.calls = <<>> THEN "none" ELSE cur.calls[Len(cur.calls)]

\* `text` is an approval token, in any case, between any whitespace
IsApprovalText(text) ==
    \E tok \in ApprovalTokens, i \in 0..Len(text) :
        /\ i + Len(tok) <= Len(text)
        /\ \A k \in 1..i : text[k] \in Whitespace
        /\ \A k \in 1..Len(tok) : LowerOf(text[i + k]) = tok[k]
        /\ \A k \in (i + Len(tok) + 1)..Len(text) : text[k] \in Whitespace

\* the step executes `node` for thread t to completion
NodeStep(t, node) ==
    /\ Running(t, node)
    /\ cur'.calls = Append(cur.calls, node)
    /\ cur'.status # "raised"

-----------------------------------------------------------------------------
(* Properties *)

\* C1: at-most-once publish: an invocation on a thread whose record was
\* already published when the invocation began never executes publish_post.
C1_PublishAtMostOnce ==
    (cur.before.present /\ cur.before.values.is_published)
        => Count("publish_post") = 0

\* C2: is_published is monotone: no node of the graph, in particular no
\* later publish_post that fails, takes a thread's is_published from true
\* back to false.
C2_PublishedMonotone ==
    [][ \A t \in ThreadIds :
          (Running(t, store[t].next) /\ store[t].values.is_published)
              => store'[t].values.is_published ]_vars

\* C3: generation always suspends: within one start, and within one
\* respond to a record that awaited review, at most one generation and at
\* most one classification run, and a completed generation is followed by
\* the return to the caller with the record awaiting review.
C3_SuspendAfterGeneration ==
    ( \/ cur.op = "start"
      \/ cur.op = "respond" /\ cur.before.next = "wait_for_approval" ) =>
        /\ Count("generate_post") <= 1
        /\ Count("process_feedback") <= 1
        /\ (LastCall = "generate_post" /\ cur.status # "raised")
               => (cur.status = "returned" /\ Ckpt.next = "wait_for_approval")

\* C4: the regeneration cap is never exceeded: every record has
\* iteration_count <= max_iterations.
C4_CapNeverExceeded ==
    \A t \in ThreadIds : store[t].values.iteration_count <= max_iterations

C6_AfterStart ==
    (cur.op \in {"start", "run"} /\ cur.status = "returned") =>
        /\ State.iteration_count = 1
        /\ State.human_feedback = <<>>
        /\ ~State.is_approved
        /\ ~State.is_published
        /\ Ckpt.next = "wait_for_approval"
        /\ Count("generate_post") = 1
        /\ Count("process_feedback") = 0

\* C7: a respond with non-approval feedback on a record awaiting review
\* with iteration_count n < max_iterations returns with the record awaiting
\* review again at n + 1, and only at n = max_iterations does it end
\* retry-exhausted, without generating (so five rejections after start end
\* at 2, 3, 4, 5 and then exhausted).
C7_FiveRejections ==
    ( /\ cur.op = "respond"
      /\ cur.status = "returned"
      /\ cur.before.next = "wait_for_approval"
      /\ ~IsApprovalText(State.human_feedback) ) =>
        IF cur.before.values.iteration_count < max_iterations
        THEN /\ Ckpt.next = "wait_for_approval"
             /\ State.iteration_count = cur.before.values.iteration_count + 1
        ELSE /\ Ckpt.next = END
             /\ Count("generate_post") = 0

\* C8: process_feedback sets is_approved, and the graph goes on to
\* publish_post, exactly when the feedback is an approval token in any case
\* and between any whitespace; every other text is not approved.
C8_Classification ==
    LastCall = "process_feedback" =>
        /\ State.is_approved = IsApprovalText(State.human_feedback)
        /\ (Ckpt.next = "publish_post") = IsApprovalText(State.human_feedback)

C8_Witness ==
    /\ LastCall = "process_feedback"
    /\ State.human_feedback = <<" "," ","A","p","p","r","o","v","e"," ">>
    /\ State.is_approved
    /\ Ckpt.next = "publish_post"

\* C9: when the classified feedback is no approval, process_feedback at
\* iteration_count >= max_iterations ends the invocation at END with no
\* further node, and below max_iterations it leaves is_approved false and
\* goes to generate_post with the feedback (and the rest of the record)
\* unchanged, the feedback being what the revision form is called with.
C9_RejectionRouting ==
    [][ \A t \in ThreadIds :
          ( NodeStep(t, "process_feedback")
            /\ ~IsApprovalText(store[t].values.human_feedback) ) =>
              LET old == store[t].values
                  new == store'[t].values
              IN  IF old.iteration_count >= max_iterations
                  THEN /\ store'[t].next = END
                       /\ cur'.status = "returned"
                       /\ new = [old EXCEPT !.is_approved = FALSE]
                  ELSE /\ store'[t].next = "generate_post"
                       /\ cur'.status = "running"
                       /\ new = [old EXCEPT !.is_approved = FALSE]
                       /\ (old.human_feedback # <<>>
                              => generation_form(new) = "revision") ]_vars

C9_Witness ==
    /\ LastCall = "process_feedback"
    /\ Count("process_feedback") >= 2
    /\ Count("publish_post") = 0
    /\ State.human_feedback = <<"n","o">>
    /\ ~State.is_approved
    /\ Ckpt.next = END
    /\ cur.status = "returned"

\* C10: a publish_post that did not publish ends the invocation normally:
\* is_published is false, is_approved is true, the record is at END, and
\* publish_post ran exactly once in the invocation.
C10_FailedPublishIsTerminal ==
    (LastCall = "publish_post" /\ ~State.is_published) =>
        /\ State.is_approved
        /\ Ckpt.next = END
        /\ cur.status = "returned"
        /\ Count("publish_post") = 1

C10_Witness ==
    /\ LastCall = "publish_post"
    /\ ~State.is_published
    /\ State.is_approved
    /\ cur.op = "respond"
    /\ cur.status = "returned"

\* this step is approve_post.py resolving to thread t
RespondsTo(t) ==
    /\ cur'.op = "respond"
    /\ \E raw \in TypedFeedback : approve(t, raw)

\* this step is resume() called with thread t
ResumesOn(t) ==
    /\ cur'.op = "resume"
    /\ \E fb \in ResumeFeedback : Resume(t, fb)

\* C11: approve_post.py or resume() on a thread that has no record fails
\* with the not-found error before any node runs, and leaves every record of
\* the store as it was: none is created, none is changed.
C11_UnknownRunNotFound ==
    [][ (Idle /\ cur'.op \in {"respond", "resume"})
        => \A t \in ThreadIds :
             (~store[t].present /\ (RespondsTo(t) \/ ResumesOn(t)))
             => /\ store' = store
                /\ cur'.thread = t
                /\ cur'.outcome = "not_found"
                /\ cur'.status \in {"exited", "raised"}
                /\ cur'.calls = <<>> ]_vars

\* approve_post.py resolved to a thread without a record while another
\* thread has one, and ended with the not-found error
C11_Witness ==
    /\ cur.op = "respond"
    /\ cur.outcome = "not_found"
    /\ ~store[cur.thread].present
    /\ \E t \in ThreadIds : store[t].present

\* C12: when the Content Producer fails during main.py or approve_post.py,
\* the thread's record is exactly what it was before that invocation: no
\* record after a failed start, the same suspended snapshot after a failed
\* respond.
C12_FailedGenerationRestores ==
    (cur.op \in {"start", "respond"} /\ cur.status = "raised"
        /\ LastCall = "generate_post")
    => Ckpt = cur.before

\* C13: between invocations every record of the store is a snapshot taken
\* at a suspension (wait_for_approval is next) or at the end of the graph;
\* none has generate_post, process_feedback or publish_post as its next node.
C13_SnapshotAtRest ==
    Idle => \A t \in ThreadIds :
                store[t].present
                => store[t].next \in {"wait_for_approval", END}

\* C14: a thread that is suspended awaiting review has a non-empty
\* generated_post, whatever the language model replied.
C14_SuspendedPostNonEmpty ==
    Idle => \A t \in ThreadIds :
                (store[t].present /\ store[t].next = "wait_for_approval")
                => store[t].values.generated_post # <<>>

\* C15: approve_post.py or resume() on a thread whose graph had ended changes
\* none of the six fields of the record and executes no node.
C15_DoneIsTerminal ==
    (cur.op \in {"respond", "resume"} /\ cur.before.present
        /\ cur.before.next = END)
    => /\ State = cur.before.values
       /\ cur.calls = <<>>

\* C16: approve_post.py reports "Post regenerated. Run this script again to
\* review" only for a thread that awaits another review, never for one whose
\* graph ended without approval at the iteration cap.
C16_ReportTellsExhaustion ==
    (cur.op = "respond" /\ cur.before.next = "wait_for_approval"
        /\ cur.status = "returned" /\ cur.outcome = "regenerated")
    => Ckpt.next = "wait_for_approval"

\* what the reviewer may type to quit
QuitTyped == {raw \in TypedFeedback : lower(strip(raw)) \in QuitTokens}

\* C17: when the reviewer types quit, exit or q (in any case, with any
\* surrounding whitespace) at the prompt of approve_post.py for a thread that
\* has a record, the script ends without running a node and leaves the
\* store and current_thread_id.txt as they were, so that whatever is invoked
\* next finds what it would have found without the quit.
C17_QuitAborts ==
    [][ (Idle /\ cur'.op = "respond" /\ store[cur'.thread].present)
        => \A raw \in QuitTyped :
             approve(cur'.thread, raw)
             => /\ store' = store
                /\ thread_file' = thread_file
                /\ cur'.status = "exited"
                /\ cur'.outcome = "quit"
                /\ cur'.calls = <<>> ]_vars

\* the reviewer quit at the prompt for a thread that awaits review
C17_Witness ==
    /\ cur.op = "respond"
    /\ cur.outcome = "quit"
    /\ cur.before.next = "wait_for_approval"
    /\ Ckpt = cur.before

\* C18: approve_post.py called with thread a as its argument leaves the
\* record of every other thread as it was.
C18_OtherRunUntouched ==
    [][ (Idle /\ cur'.op = "respond")
        => \A a \in ThreadIds, typed \in {""} \cup ThreadIds,
              raw \in TypedFeedback :
             Respond(<<a>>, typed, raw)
             => \A b \in ThreadIds \ {a} : store'[b] = store[b] ]_vars

\* C19: the article of a thread is set when its record is created and no
\* later invocation on the same thread_id changes it, be it a node, approve_post.py,
\* resume() or a further run() that reuses the thread_id.  (Stated for the
\* invocations that find the thread awaiting review or at the end of the graph.)
C19_ArticleImmutable ==
    (cur.before.present /\ cur.before.next \in {"wait_for_approval", END})
    => State.article = cur.before.values.article

\* the errors publish_post returns after a submission that failed: rate
\* limited, unauthorized, or any other exception of the platform
SubmissionErrors ==
    {submitted(api).error : api \in ApiBehaviours \ {"tweet"}}

\* C20: publish_post always returns (it does not raise); for a text longer
\* than 280 characters it never calls api.update_status and returns a failure
\* whose error differs from the error of every failed submission; for a text
\* of at most 280 characters it calls api.update_status exactly once.
C20_TooLongRejected ==
    twitter.returned
    => /\ ~twitter.result.raised
       /\ IF twitter.post_len > TwitterLimit
          THEN /\ twitter.result.submits = 0
               /\ ~twitter.result.success
               /\ twitter.result.error \notin SubmissionErrors
          ELSE twitter.result.submits = 1

\* a text of 281 characters was handed to publish_post and was refused
C20_Witness ==
    /\ twitter.returned
    /\ twitter.post_len = TwitterLimit + 1
    /\ ~twitter.result.success
    /\ twitter.result.submits = 0

\* C21: the generation step calls the revision form, with the article and
\* the feedback of the record, exactly when iteration_count > 0 and
\* human_feedback is non-empty as the step begins, and the initial form with
\* the article otherwise; so the first generation of a start or run is
\* initial, and a generation that approve_post.py sets off on a thread
\* awaiting review is a revision with the feedback that was typed.
C21_GenerationForm ==
    LastCall = "generate_post" =>
        LET fb == State.human_feedback
            n  == IF cur.status = "raised" THEN State.iteration_count
                  ELSE State.iteration_count - 1
        IN  /\ cur.producer.article = State.article
            /\ IF n > 0 /\ fb # <<>>
               THEN cur.producer.form = "revision" /\ cur.producer.feedback = fb
               ELSE cur.producer.form = "initial"
            /\ (cur.op \in {"start", "run"} /\ Count("generate_post") = 1)
                   => cur.producer.form = "initial"
            /\ (cur.op = "respond" /\ cur.before.next = "wait_for_approval")
                   => /\ fb # <<>>
                      /\ ~IsApprovalText(fb)
                      /\ cur.producer.form = "revision"
                      /\ cur.producer.feedback = fb

\* approve_post.py with feedback "no" on a thread awaiting review has set
\* off a revision with that feedback
C21_Witness ==
    /\ cur.op = "respond"
    /\ cur.before.next = "wait_for_approval"
    /\ LastCall = "generate_post"
    /\ cur.producer.form = "revision"
    /\ cur.producer.feedback = <<"n", "o">>

\* C22: approval goes before the cap: a classified feedback that is an
\* approval token sends the thread to publish_post whatever iteration_count
\* is, also at and above max_iterations, and a classification ends the graph
\* without publishing only when the feedback is no approval.
C22_ApprovalBeforeCap ==
    LastCall = "process_feedback" =>
        /\ ( IsApprovalText(State.human_feedback)
             /\ State.iteration_count >= max_iterations )
               => (State.is_approved /\ Ckpt.next = "publish_post")
        /\ Ckpt.next = END
               => ( ~IsApprovalText(State.human_feedback)
                    /\ State.iteration_count >= max_iterations )

\* approve_post.py's approval was classified at the cap and the thread goes
\* to publish_post
C22_Witness ==
    /\ cur.op = "respond"
    /\ LastCall = "process_feedback"
    /\ State.iteration_count = max_iterations
    /\ State.human_feedback = <<"Y", "E", "S">>
    /\ State.is_approved
    /\ Ckpt.next = "publish_post"

\* C23: when approve_post.py is given a thread id as its argument, the thread
\* whose state it loads, and the only record it writes, is that thread,
\* whatever current_thread_id.txt holds and whichever thread was started last.
C23_ArgumentNamesTheRun ==
    [][ (Idle /\ cur'.op = "respond")
        => \A a \in ThreadIds, typed \in {""} \cup ThreadIds,
              raw \in TypedFeedback :
             Respond(<<a>>, typed, raw)
             => /\ cur'.thread = a
                /\ cur'.before = store[a] ]_vars

\* thread t awaits review and no script is running
Suspended(t) ==
    Idle /\ store[t].present /\ store[t].next = "wait_for_approval"

\* C24: the review cycle is bounded.  A script that was started ends; a
\* decision typed for a thread awaiting review is classified at most
\* max_iterations times and, unless a generation fails, approve_post.py
\* returns with the thread at the end of the graph; so if a decision is
\* eventually typed whenever a thread awaits review, the thread eventually is
\* at the end of the graph or a generation has failed.
C24_BoundedReview ==
    /\ [] ( (cur.op = "respond" /\ cur.before.next = "wait_for_approval")
            => /\ Count("process_feedback") <= max_iterations
               /\ cur.status = "returned" => Ckpt.next = END )
    /\ (cur.status = "running") ~> (cur.status # "running")
    /\ WF_vars(Decide)
          => \A t \in ThreadIds :
                Suspended(t) ~> (store[t].next = END \/ cur.status = "raised")

\* approve_post.py has returned from a thread that awaited review after
\* max_iterations classifications, with the thread at the end of the graph
C24_Witness ==
    /\ cur.op = "respond"
    /\ cur.before.next = "wait_for_approval"
    /\ cur.status = "returned"
    /\ Count("process_feedback") = max_iterations
    /\ Ckpt.next = END

\* C25: no publish without approval: every publish_post of an invocation
\* comes straight after a process_feedback of the same invocation, the
\* feedback of the record is then an approval token, and it was written by
\* that invocation, which is approve_post.py or resume(); main.py and run()
\* never execute publish_post.
C25_PublishNeedsApproval ==
    /\ \A i \in DOMAIN cur.calls :
          cur.calls[i] = "publish_post"
          => (i > 1 /\ cur.calls[i - 1] = "process_feedback")
    /\ Count("publish_post") > 0
          => /\ cur.op \in {"respond", "resume"}
             /\ IsApprovalText(State.human_feedback)
             /\ State.is_approved
    /\ Ckpt.next = "publish_post"
          => (cur.status = "running" /\ LastCall = "process_feedback")

\* approve_post.py has executed publish_post after classifying an approval
C25_Witness ==
    /\ cur.op = "respond"
    /\ LastCall = "publish_post"
    /\ cur.calls[Len(cur.calls) - 1] = "process_feedback"
    /\ IsApprovalText(State.human_feedback)

\* C26: the text published is the text the reviewer saw: when approve_post.py
\* or resume() executes publish_post on a thread that awaited review, the
\* generated_post handed to the Publisher is the one the record held when the
\* decision was supplied, and no generate_post ran in between.
C26_PublishedIsReviewed ==
    ( cur.op \in {"respond", "resume"}
      /\ cur.before.next = "wait_for_approval"
      /\ Ckpt.next = "publish_post" )
    => /\ Count("generate_post") = 0
       /\ State.generated_post = cur.before.values.generated_post

\* C27: in every record of the store, is_published implies is_approved.
C27_PublishedImpliesApproved ==
    \A t \in ThreadIds :
        store[t].values.is_published => store[t].values.is_approved


====
